---- MODULE Spec2Model ----
(***************************************************************************)
(* TURF analysis (Total Unduplicated Reach and Frequency).                 *)
(*                                                                         *)
(* A model of TURFAnalyzer (src/turf_analyzer.py) and of the detailed      *)
(* reach-metrics table that main() (src/main.py) builds from its result.   *)
(*                                                                         *)
(* A respondent-level data frame is a sequence of rows, each row a         *)
(* sequence of booleans, one per feature.  A feature is identified by its  *)
(* column position 1..M (the code uses the column label).                  *)
(***************************************************************************)
EXTENDS Integers, Sequences, FiniteSets

\* ------------------------------------------------------------- bounds
\* Respondents (rows) of the data frames explored: 0..MaxRespondents.
MaxRespondents == 3
\* Columns of the data frames of arbitrary content: 0..MaxFreeFeatures.
MaxFreeFeatures == 3
\* Columns of the data frames made of two blocks of equal columns.
MaxFeatures == 8
\* max_combinations arguments explored: 0..MaxCombinations.
MaxCombinations == 3

\* --------------------------------------------------- program constants
\* "size + 5" of sorted_features[:min(len(sorted_features), size + 5)].
NarrowingMargin == 5

VARIABLES
    data,               \* self.data: the rows of the data frame
    features,           \* self.features: data.columns.tolist()
    n_respondents,      \* self.n_respondents: len(data)
    max_combinations,   \* the argument of analyze (0 until it is called)
    pc,                 \* position in analyze / in main's metrics loop
    individual_reach,   \* analyze local: feature -> reach of it alone
    sorted_features,    \* analyze local
    size,               \* analyze local: the outer loop variable
    indices,            \* state of the combinations iterator, <<>> = exhausted
    combo,              \* analyze local: the combination last scored
    reach,              \* analyze local: its reach
    best_combination,   \* analyze local / result
    max_reach,          \* analyze local / result
    incremental_reach,  \* analyze local / result
    reach_percentages,  \* analyze local / result
    result,             \* the dict analyze returned, NoResult before
    reach_metrics,      \* main local: the rows of the metrics table
    previous_reach      \* main local

vars == <<data, features, n_respondents, max_combinations, pc,
          individual_reach, sorted_features, size, indices, combo, reach,
          best_combination, max_reach, incremental_reach, reach_percentages,
          result, reach_metrics, previous_reach>>

analyzerVars == <<data, features, n_respondents>>
searchVars == <<individual_reach, sorted_features, size, indices, combo, reach,
                best_combination, max_reach>>
mainVars == <<reach_metrics, previous_reach>>

NoResult == [returned |-> FALSE]

Min(a, b) == IF a <= b THEN a ELSE b

\* --------------------------------------------------------- TURFAnalyzer

\* Faulty variant: the column count taken for the row count.
RowCountOfColumns(d) == Len(features)

\* len(data)
RowCount(d) == Len(d)

\* Faulty variant: all(axis=1) in place of any(axis=1).
ReachOfAll(feature_combination) ==
    IF feature_combination = <<>>
    THEN 0
    ELSE Cardinality({r \in 1..Len(data) :
            \A i \in 1..Len(feature_combination) :
                data[r][feature_combination[i]]})

\* Faulty variant: the true cells are counted, not the rows that have one.
ReachCountingCells(feature_combination) ==
    IF feature_combination = <<>>
    THEN 0
    ELSE Cardinality({rc \in (1..Len(data)) \X (1..Len(feature_combination)) :
            data[rc[1]][feature_combination[rc[2]]]})

\* data[list(feature_combination)].any(axis=1).sum(), 0 for an empty list.
calculate_combined_reach(feature_combination) ==
    IF feature_combination = <<>>
    THEN 0
    ELSE Cardinality({r \in 1..Len(data) :
            \E i \in 1..Len(feature_combination) :
                data[r][feature_combination[i]]})

\* {feature: calculate_combined_reach([feature]) for feature in features}
IndividualReach == [f \in 1..Len(features) |->
                        calculate_combined_reach(<<features[f]>>)]

\* One step of a stable sort by descending key: x goes after every element
\* whose key is at least its own.
InsertDescending(s, x, key) ==
    LET AtLeast(y) == key[y] >= key[x]
        Below(y) == key[y] < key[x]
    IN  SelectSeq(s, AtLeast) \o <<x>> \o SelectSeq(s, Below)

RECURSIVE SortedDescending(_, _)
\* sorted(fs, key=lambda x: key[x], reverse=True): stable, so features of
\* equal key keep their order in fs.
SortedDescending(fs, key) ==
    IF fs = <<>>
    THEN <<>>
    ELSE InsertDescending(SortedDescending(SubSeq(fs, 1, Len(fs) - 1), key),
                          fs[Len(fs)], key)

\* sorted_features[:min(len(sorted_features), size + 5)]
Pool(sorted, sz) == SubSeq(sorted, 1, Min(Len(sorted), sz + NarrowingMargin))

\* Faulty variant: a size above the pool is cut down to the pool.
FirstIndicesClamped(n, r) == [i \in 1..Min(n, r) |-> i]

\* itertools.combinations(pool, r), first tuple: positions 1..r, or nothing
\* when r > n.
FirstIndices(n, r) == IF r > n THEN <<>> ELSE [i \in 1..r |-> i]

\* itertools.combinations, next tuple: the rightmost position not yet at its
\* maximum i + n - r is advanced, the positions after it follow it.
NextIndices(ix, n) ==
    LET r == Len(ix)
        movable == {i \in 1..r : ix[i] # i + n - r}
    IN  IF movable = {}
        THEN <<>>
        ELSE LET i == CHOOSE m \in movable : \A k \in movable : k <= m
             IN  [j \in 1..r |-> IF j < i THEN ix[j] ELSE ix[i] + 1 + (j - i)]

\* The tuple the iterator yields at positions ix of pool.
ComboAt(pool, ix) == [j \in 1..Len(ix) |-> pool[ix[j]]]

\* Faulty variant: if reach >= max_reach
ImprovesOrEquals(r, best) == r >= best

\* if reach > max_reach
Improves(r, best) == r > best

\* Faulty variant: best_combination[:i]
PrefixShort(s, i) == SubSeq(s, 1, i)

\* best_combination[:i+1], i counted from 0
Prefix(s, i) == SubSeq(s, 1, i + 1)

\* current_reach / self.n_respondents * 100, kept as the exact quotient
\* num / den (the code holds its floating-point value).
Percentage(current_reach, n) == [num |-> current_reach * 100, den |-> n]

\* The dict analyze returns.
ResultDict(best, mr, inc, pct, total) ==
    [returned |-> TRUE,
     best_combination |-> best,
     max_reach |-> mr,
     incremental_reach |-> inc,
     reach_percentages |-> pct,
     total_respondents |-> total]

\* ----------------------------------------------------------------- utils

\* validate_data(df): some column, some row (the cells of the model are
\* booleans, so the binary-values test passes).
validate_data(d, fs) ==
    IF Len(fs) = 0 THEN FALSE
    ELSE IF Len(d) = 0 THEN FALSE
    ELSE TRUE

\* ------------------------------------------------------------------ main

\* df[feature].sum()
ColumnSum(feature) == Cardinality({r \in 1..Len(data) : data[r][feature]})

\* Faulty variant: previous_reach is never updated.
KeepPreviousReach(current_total_reach) == previous_reach

\* previous_reach = current_total_reach
NextPreviousReach(current_total_reach) == current_total_reach

\* main reaches analyze, and so its metrics table, only with a data frame
\* validate_data accepted, at least one selected feature, and the
\* number_input value 1..len(selected_features).
MainAccepts ==
    /\ validate_data(data, features)
    /\ Len(features) >= 1
    /\ max_combinations \in 1..Len(features)

\* ------------------------------------------------------------ data frames

\* The data frames explored.  A frame has up to MaxFreeFeatures columns of
\* any content, or up to MaxFeatures columns made of a block of copies of
\* one column followed by a block of copies of another.  Reach counts
\* respondents, whatever their order: the rows of a frame are taken in
\* non-decreasing order only.

\* Rows of m cells.
FreeRows(m) == [1..m -> BOOLEAN]

\* Rows of r1 equal cells followed by r2 equal cells.
BlockRows(r1, r2) ==
    {[c \in 1..(r1 + r2) |-> IF c <= r1 THEN x ELSE y] :
        x \in BOOLEAN, y \in BOOLEAN}

RowSets ==
    {[m |-> m, rows |-> FreeRows(m)] : m \in 0..MaxFreeFeatures} \cup
    {[m |-> t[1] + t[2], rows |-> BlockRows(t[1], t[2])] :
        t \in {u \in (1..MaxFeatures) \X (1..MaxFeatures) :
                  u[1] + u[2] <= MaxFeatures}}

\* u = v, or u has FALSE and v TRUE in the first cell where they differ.
RowLeq(u, v) ==
    \/ u = v
    \/ \E c \in 1..Len(u) :
          /\ \A j \in 1..(c - 1) : u[j] = v[j]
          /\ ~u[c]
          /\ v[c]

Frames(n, rows) ==
    {d \in [1..n -> rows] : \A r \in 1..(n - 1) : RowLeq(d[r], d[r + 1])}

\* ------------------------------------------------------------------ Init

\* TURFAnalyzer.__init__ on a data frame of n rows and rs.m columns.
Init ==
    \E n \in 0..MaxRespondents : \E rs \in RowSets : \E d \in Frames(n, rs.rows) :
        /\ data = d
        /\ features = [c \in 1..rs.m |-> c]
        /\ n_respondents = RowCount(d)
        /\ max_combinations = 0
        /\ pc = "idle"
        /\ individual_reach = <<>>
        /\ sorted_features = <<>>
        /\ size = 0
        /\ indices = <<>>
        /\ combo = <<>>
        /\ reach = 0
        /\ best_combination = <<>>
        /\ max_reach = 0
        /\ incremental_reach = <<>>
        /\ reach_percentages = <<>>
        /\ result = NoResult
        /\ reach_metrics = <<>>
        /\ previous_reach = 0

\* --------------------------------------------------------------- analyze

\* analyze(k) up to the first test of the size loop: the locals, the
\* individual reach of every feature, the sorted feature list.
AnalyzeEnter ==
    /\ pc = "idle"
    /\ \E k \in 0..MaxCombinations : max_combinations' = k
    /\ best_combination' = <<>>
    /\ max_reach' = 0
    /\ incremental_reach' = <<>>
    /\ reach_percentages' = <<>>
    /\ individual_reach' = IndividualReach
    /\ sorted_features' = SortedDescending(features, IndividualReach)
    /\ size' = 1
    /\ pc' = "size_loop"
    /\ UNCHANGED <<analyzerVars, indices, combo, reach, result, mainVars>>

\* for size in range(1, max_combinations + 1): a next size, whose
\* combinations iterator is created over the narrowed feature list.
SizeBegin ==
    /\ pc = "size_loop"
    /\ size <= max_combinations
    /\ indices' = FirstIndices(Len(Pool(sorted_features, size)), size)
    /\ pc' = "combo_loop"
    /\ UNCHANGED <<analyzerVars, max_combinations, individual_reach,
                   sorted_features, size, combo, reach, best_combination,
                   max_reach, incremental_reach, reach_percentages, result,
                   mainVars>>

\* for combo in combinations(...): one combination is scored and kept when
\* its reach exceeds the best so far.
TryCombo ==
    /\ pc = "combo_loop"
    /\ indices # <<>>
    /\ LET pool == Pool(sorted_features, size)
           c == ComboAt(pool, indices)
           r == calculate_combined_reach(c)
       IN  /\ combo' = c
           /\ reach' = r
           /\ IF Improves(r, max_reach)
              THEN /\ max_reach' = r
                   /\ best_combination' = c
              ELSE UNCHANGED <<max_reach, best_combination>>
           /\ indices' = NextIndices(indices, Len(pool))
    /\ UNCHANGED <<analyzerVars, max_combinations, pc, individual_reach,
                   sorted_features, size, incremental_reach,
                   reach_percentages, result, mainVars>>

\* The combinations of this size are exhausted: on to the next size.
SizeEnd ==
    /\ pc = "combo_loop"
    /\ indices = <<>>
    /\ size' = size + 1
    /\ pc' = "size_loop"
    /\ UNCHANGED <<analyzerVars, max_combinations, individual_reach,
                   sorted_features, indices, combo, reach, best_combination,
                   max_reach, incremental_reach, reach_percentages, result,
                   mainVars>>

\* The size loop ends.
SearchEnd ==
    /\ pc = "size_loop"
    /\ size > max_combinations
    /\ pc' = "incremental"
    /\ UNCHANGED <<analyzerVars, max_combinations, searchVars,
                   incremental_reach, reach_percentages, result, mainVars>>

\* for i in range(len(best_combination)): the reach of the prefix of length
\* i + 1 is appended (i is the number of values appended so far).
IncrementalStep ==
    /\ pc = "incremental"
    /\ Len(incremental_reach) < Len(best_combination)
    /\ LET i == Len(incremental_reach)
           current_reach ==
               calculate_combined_reach(Prefix(best_combination, i))
       IN  /\ incremental_reach' = Append(incremental_reach, current_reach)
           /\ reach_percentages' =
                Append(reach_percentages,
                       Percentage(current_reach, n_respondents))
    /\ UNCHANGED <<analyzerVars, max_combinations, pc, searchVars, result,
                   mainVars>>

\* return {...}
AnalyzeReturn ==
    /\ pc = "incremental"
    /\ Len(incremental_reach) >= Len(best_combination)
    /\ result' = ResultDict(best_combination, max_reach, incremental_reach,
                            reach_percentages, n_respondents)
    /\ pc' = "done"
    /\ UNCHANGED <<analyzerVars, max_combinations, searchVars,
                   incremental_reach, reach_percentages, mainVars>>

\* ------------------------------------------------- main: the metrics table

\* The reach contribution chart main draws before the table: with an empty
\* best_combo, pd.DataFrame([]) has no column 'Reach Percentage' and
\* reach_data['Reach Percentage'] raises KeyError.
ReachChartRaises == result.best_combination = <<>>

\* main ends with the KeyError of the chart: no metrics table is built.
ReachChartKeyError ==
    /\ pc = "done"
    /\ MainAccepts
    /\ ReachChartRaises
    /\ pc' = "KeyError"
    /\ UNCHANGED <<analyzerVars, max_combinations, searchVars,
                   incremental_reach, reach_percentages, result, mainVars>>

\* The chart is drawn; reach_metrics = []; previous_reach = 0
MetricsBegin ==
    /\ pc = "done"
    /\ MainAccepts
    /\ ~ReachChartRaises
    /\ reach_metrics' = <<>>
    /\ previous_reach' = 0
    /\ pc' = "metrics"
    /\ UNCHANGED <<analyzerVars, max_combinations, searchVars,
                   incremental_reach, reach_percentages, result>>

\* for i, feature in enumerate(best_combo): one row of the table (i is the
\* number of rows appended so far).
MetricsStep ==
    /\ pc = "metrics"
    /\ Len(reach_metrics) < Len(result.best_combination)
    /\ LET i == Len(reach_metrics) + 1
           feature == result.best_combination[i]
           current_total_reach == result.incremental_reach[i]
       IN  /\ reach_metrics' =
                Append(reach_metrics,
                       [feature |-> feature,
                        marginal |-> ColumnSum(feature),
                        incremental |-> current_total_reach - previous_reach,
                        cumulative |-> current_total_reach])
           /\ previous_reach' = NextPreviousReach(current_total_reach)
    /\ UNCHANGED <<analyzerVars, max_combinations, pc, searchVars,
                   incremental_reach, reach_percentages, result>>

\* The table is complete.
MetricsEnd ==
    /\ pc = "metrics"
    /\ Len(reach_metrics) >= Len(result.best_combination)
    /\ pc' = "reported"
    /\ UNCHANGED <<analyzerVars, max_combinations, searchVars,
                   incremental_reach, reach_percentages, result, mainVars>>

Next ==
    \/ AnalyzeEnter
    \/ SizeBegin
    \/ TryCombo
    \/ SizeEnd
    \/ SearchEnd
    \/ IncrementalStep
    \/ AnalyzeReturn
    \/ ReachChartKeyError
    \/ MetricsBegin
    \/ MetricsStep
    \/ MetricsEnd

Spec == Init /\ [][Next]_vars

\* ----------------------------------------------- analyze as a function

RECURSIVE SearchFrom(_, _, _, _, _, _)
\* The size and combination loops of analyze from size sz and iterator state
\* ix on, with max_reach mr and best_combination best so far.
SearchFrom(sorted, k, sz, ix, mr, best) ==
    IF sz > k
    THEN [max_reach |-> mr, best_combination |-> best]
    ELSE IF ix = <<>>
    THEN SearchFrom(sorted, k, sz + 1,
                    FirstIndices(Len(Pool(sorted, sz + 1)), sz + 1), mr, best)
    ELSE LET pool == Pool(sorted, sz)
             c == ComboAt(pool, ix)
             r == calculate_combined_reach(c)
         IN  IF Improves(r, mr)
             THEN SearchFrom(sorted, k, sz, NextIndices(ix, Len(pool)), r, c)
             ELSE SearchFrom(sorted, k, sz, NextIndices(ix, Len(pool)), mr, best)

\* What analyze(k) returns on the data frame of the state.
AnalyzeResult(k) ==
    LET sorted == SortedDescending(features, IndividualReach)
        found == SearchFrom(sorted, k, 1,
                            FirstIndices(Len(Pool(sorted, 1)), 1), 0, <<>>)
        best == found.best_combination
        inc == [i \in 1..Len(best) |->
                    calculate_combined_reach(Prefix(best, i - 1))]
    IN  ResultDict(best, found.max_reach, inc,
                   [i \in 1..Len(best) |-> Percentage(inc[i], n_respondents)],
                   n_respondents)

\* ============================================================ properties

FeatureSet == {features[c] : c \in 1..Len(features)}

\* Unduplicated reach of a set of features: the respondents reached by at
\* least one of them.
Covered(S) == Cardinality({r \in 1..Len(data) : \E f \in S : data[r][f]})

\* The non-empty feature subsets of at most k features.
Candidates(k) ==
    {S \in SUBSET FeatureSet : S # {} /\ Cardinality(S) <= k}

SetMax(S) == CHOOSE x \in S : \A y \in S : y <= x

SetMin(S) == CHOOSE x \in S : \A y \in S : x <= y

\* f comes before g in the feature list sorted by descending individual
\* coverage, equal coverage in original column order.
Precedes(f, g) ==
    \/ Covered({f}) > Covered({g})
    \/ Covered({f}) = Covered({g}) /\ f < g

\* Position of f in that list.
Rank(f) == 1 + Cardinality({g \in FeatureSet : Precedes(g, f)})

\* S is enumerated before T: a smaller size first, within a size the
\* lexicographic order of the positions.
EnumeratedBefore(S, T) ==
    \/ Cardinality(S) < Cardinality(T)
    \/ /\ Cardinality(S) = Cardinality(T)
       /\ S # T
       /\ LET d == (S \ T) \cup (T \ S)
              first == CHOOSE f \in d : \A g \in d : Rank(f) <= Rank(g)
          IN  first \in S

\* The first subset of at most k features, in enumeration order, whose
\* coverage is target.
FirstWithCoverage(k, target) ==
    CHOOSE S \in Candidates(k) :
        /\ Covered(S) = target
        /\ \A T \in Candidates(k) :
              (Covered(T) = target /\ T # S) => EnumeratedBefore(S, T)

\* The sequence s lists exactly the features of S, in list order.
ListsInOrder(s, S) ==
    /\ Len(s) = Cardinality(S)
    /\ {s[i] : i \in 1..Len(s)} = S
    /\ \A i \in 1..Len(s) - 1 : Rank(s[i]) < Rank(s[i + 1])

RECURSIVE SetToSeq(_)
\* The features of S as a list, in column order.
SetToSeq(S) ==
    IF S = {} THEN <<>> ELSE <<SetMin(S)>> \o SetToSeq(S \ {SetMin(S)})

RECURSIVE SumSeq(_)
SumSeq(s) == IF s = <<>> THEN 0 ELSE s[1] + SumSeq(Tail(s))

\* analyze was called on a Reach Matrix of the data model (at least one
\* respondent and one feature) with a valid maximum size, and has returned.
ReturnedOnValidInput ==
    /\ pc = "done"
    /\ Len(features) >= 1
    /\ n_respondents >= 1
    /\ max_combinations >= 1

\* C1: on a matrix with N >= 1 respondents and M >= 1 features and for
\* K >= 1, the max_reach analyze(K) returns is the maximum coverage over all
\* non-empty feature subsets of at most K features.
C1_MaxReachIsExhaustiveMaximum ==
    ReturnedOnValidInput =>
        result.max_reach =
            SetMax({Covered(S) : S \in Candidates(max_combinations)})

\* C2: the best_combination analyze(K) returns is the first subset, in the
\* order sizes ascending then lexicographic over the full feature list
\* sorted by descending individual coverage (ties in column order), whose
\* coverage equals the returned max_reach.
C2_BestIsFirstWithMaxReach ==
    ReturnedOnValidInput =>
        ListsInOrder(result.best_combination,
                     FirstWithCoverage(max_combinations, result.max_reach))

\* C3: for maxCombinations = 1 and any matrix with a feature and a
\* respondent (also one that reaches nobody), best_combination is exactly
\* the feature of highest individual coverage, the earliest column among
\* equals.
C3_SingleFeatureBaseCase ==
    (ReturnedOnValidInput /\ max_combinations = 1) =>
        /\ Len(result.best_combination) = 1
        /\ Rank(result.best_combination[1]) = 1

\* C4: with maxCombinations < 1 or a matrix of zero respondents, analyze
\* raises InvalidInput before any coverage is computed or combination
\* enumerated, and returns no result.
C4_InvalidInputFailsFast ==
    (pc # "idle" /\ (max_combinations < 1 \/ n_respondents = 0)) =>
        /\ pc = "InvalidInput"
        /\ ~result.returned

\* C5: in every result of analyze the three sequences have the same length,
\* incremental_reach is non-decreasing, and max_reach is the last
\* incremental_reach value when best_combination is non-empty.
C5_ResultShape ==
    result.returned =>
        /\ Len(result.incremental_reach) = Len(result.best_combination)
        /\ Len(result.reach_percentages) = Len(result.best_combination)
        /\ \A i \in 1..Len(result.incremental_reach) - 1 :
              result.incremental_reach[i] <= result.incremental_reach[i + 1]
        /\ result.best_combination # <<>> =>
              result.max_reach =
                  result.incremental_reach[Len(result.incremental_reach)]

\* A result of three features whose incremental reach grows along the way.
C5_Witness ==
    /\ result.returned
    /\ Len(result.best_combination) = 3
    /\ result.incremental_reach[1] < result.incremental_reach[3]

\* C6: on a matrix without features analyze(K), K >= 1, returns the empty
\* result: no best combination, max_reach 0, no incremental values or
\* percentages, total_respondents the row count.
C6_ZeroFeaturesEmptyResult ==
    (pc = "done" /\ Len(features) = 0 /\ max_combinations >= 1) =>
        result = ResultDict(<<>>, 0, <<>>, <<>>, Len(data))

\* analyze has returned for a matrix of two rows and no column.
C6_Witness ==
    /\ pc = "done"
    /\ Len(features) = 0
    /\ max_combinations >= 1
    /\ Len(data) = 2
    /\ result.returned

\* C7: for K above the feature count M analyze(K) returns what analyze(M)
\* returns, and the sizes above M yield no candidate.
C7_SizesAboveFeatureCount ==
    /\ (pc = "done" /\ max_combinations > Len(features)) =>
          result = AnalyzeResult(Len(features))
    /\ (pc = "combo_loop" /\ size > Len(features)) => indices = <<>>

\* analyze(3) has returned a two-feature combination for a two-feature
\* matrix.
C7_Witness ==
    /\ pc = "done"
    /\ Len(features) = 2
    /\ max_combinations = 3
    /\ Len(result.best_combination) = 2

\* C8: coverage is monotonic: the empty list has reach 0, adding a feature f
\* to any feature subset S never lowers the reach, and the reach analyze
\* computed for a combination is not lowered by any further feature.
C8_CoverageMonotonic ==
    /\ calculate_combined_reach(<<>>) = 0
    /\ pc = "idle" =>
          \A S \in SUBSET FeatureSet : \A f \in FeatureSet \ S :
              calculate_combined_reach(SetToSeq(S \cup {f})) >=
                  calculate_combined_reach(SetToSeq(S))
    /\ combo # <<>> =>
          \A f \in FeatureSet \ {combo[i] : i \in 1..Len(combo)} :
              calculate_combined_reach(Append(combo, f)) >= reach

\* analyze has scored a combination whose reach one further feature raises
\* and another leaves unchanged.
C8_Witness ==
    /\ pc = "combo_loop"
    /\ combo # <<>>
    /\ reach >= 1
    /\ \E f \in FeatureSet \ {combo[i] : i \in 1..Len(combo)} :
          calculate_combined_reach(Append(combo, f)) > reach
    /\ \E f \in FeatureSet \ {combo[i] : i \in 1..Len(combo)} :
          calculate_combined_reach(Append(combo, f)) = reach

\* C9: reach never leaves 0..total_respondents: the reach of every feature
\* subset, of every scored combination, and in a result max_reach, every
\* incremental_reach value and so every percentage (within 0..100);
\* total_respondents is the row count.
C9_ReachWithinRespondents ==
    /\ pc = "idle" =>
          \A S \in SUBSET FeatureSet :
              /\ 0 <= calculate_combined_reach(SetToSeq(S))
              /\ calculate_combined_reach(SetToSeq(S)) <= Len(data)
    /\ 0 <= reach /\ reach <= n_respondents
    /\ result.returned =>
          /\ result.total_respondents = Len(data)
          /\ 0 <= result.max_reach
          /\ result.max_reach <= result.total_respondents
          /\ \A i \in 1..Len(result.incremental_reach) :
                /\ 0 <= result.incremental_reach[i]
                /\ result.incremental_reach[i] <= result.total_respondents
          /\ \A i \in 1..Len(result.reach_percentages) :
                /\ 0 <= result.reach_percentages[i].num
                /\ result.reach_percentages[i].num <=
                       100 * result.reach_percentages[i].den

\* A result that reaches every respondent with two overlapping features.
C9_Witness ==
    /\ result.returned
    /\ result.max_reach = result.total_respondents
    /\ result.total_respondents >= 2
    /\ Len(result.best_combination) >= 2
    /\ ColumnSum(result.best_combination[1]) +
           ColumnSum(result.best_combination[2]) > result.total_respondents

\* C10: the metrics table keeps, per position i of best_combination, the
\* marginal reach (the feature alone), the incremental reach
\* (incremental_reach[i] minus the value before it, 0 before the first) and
\* the cumulative reach (incremental_reach[i]); the incremental values sum
\* to max_reach and none exceeds the marginal value of its feature.
C10_MetricsTable ==
    pc = "reported" =>
        /\ Len(reach_metrics) = Len(result.best_combination)
        /\ \A i \in 1..Len(reach_metrics) :
              /\ reach_metrics[i].feature = result.best_combination[i]
              /\ reach_metrics[i].marginal =
                     Covered({result.best_combination[i]})
              /\ reach_metrics[i].incremental =
                     result.incremental_reach[i] -
                         (IF i = 1 THEN 0 ELSE result.incremental_reach[i - 1])
              /\ reach_metrics[i].cumulative = result.incremental_reach[i]
              /\ reach_metrics[i].incremental <= reach_metrics[i].marginal
        /\ SumSeq([i \in 1..Len(reach_metrics) |->
                      reach_metrics[i].incremental]) = result.max_reach

\* A finished table of two rows whose second feature adds fewer respondents
\* than it reaches alone.
C10_Witness ==
    /\ pc = "reported"
    /\ Len(reach_metrics) = 2
    /\ reach_metrics[2].incremental >= 1
    /\ reach_metrics[2].incremental < reach_metrics[2].marginal

\* C11: in every result of analyze incremental_reach is strictly increasing
\* from a first value above 0 (every feature of best_combination adds a
\* respondent the features before it do not reach), and no set of fewer
\* features taken from best_combination has coverage max_reach.
C11_NoRedundantFeature ==
    result.returned =>
        /\ \A i \in 1..Len(result.incremental_reach) :
              result.incremental_reach[i] >
                  (IF i = 1 THEN 0 ELSE result.incremental_reach[i - 1])
        /\ \A S \in SUBSET {result.best_combination[i] :
                               i \in 1..Len(result.best_combination)} :
              Cardinality(S) < Len(result.best_combination) =>
                  Covered(S) < result.max_reach

\* Some respondent is reached by some feature.
SomeCellTrue == \E r \in 1..Len(data) : \E f \in FeatureSet : data[r][f]

\* C12, in a state: max_reach is the coverage of best_combination at every
\* step of the search; best_combination, when not empty, holds between 1 and
\* min(maxCombinations, M) distinct features of the matrix; on return it is
\* empty exactly when max_reach is 0, which is exactly when the matrix is
\* all-false, has no feature, or maxCombinations < 1.
C12_SearchState ==
    /\ max_reach =
          Covered({best_combination[i] : i \in 1..Len(best_combination)})
    /\ best_combination # <<>> =>
          /\ 1 <= Len(best_combination)
          /\ Len(best_combination) <= Min(max_combinations, Len(features))
          /\ \A i \in 1..Len(best_combination) :
                best_combination[i] \in FeatureSet
          /\ \A i \in 1..Len(best_combination) :
                \A j \in 1..Len(best_combination) :
                    i # j => best_combination[i] # best_combination[j]
    /\ result.returned =>
          /\ result.best_combination = best_combination
          /\ result.max_reach = max_reach
          /\ (result.best_combination = <<>>) <=> (result.max_reach = 0)
          /\ (result.max_reach = 0) <=>
                (\/ ~SomeCellTrue
                 \/ Len(features) = 0
                 \/ max_combinations < 1)

\* C12: the search keeps max_reach equal to the coverage of
\* best_combination and never lowers it, and returns an empty
\* best_combination exactly when max_reach is 0 (no candidate reaches
\* anyone); a non-empty one holds 1..min(maxCombinations, M) distinct
\* features.
C12_SearchInvariant ==
    /\ []C12_SearchState
    /\ [][max_reach' >= max_reach]_vars

\* The search has raised max_reach to a two-feature combination and has
\* since scored another combination without replacing it.
C12_Witness ==
    /\ pc = "combo_loop"
    /\ Len(best_combination) = 2
    /\ max_reach >= 2
    /\ combo # best_combination
    /\ reach <= max_reach

====
